---- MODULE Spec2Model ----
(***************************************************************************)
(* Russian roulette chat plugin (src/russian_roulette/plugin.py).          *)
(*                                                                         *)
(* The plugin runs on one asyncio event loop: a coroutine runs without     *)
(* interruption from one `await` to the next, so every action below is the *)
(* code of one handler between two consecutive awaits.  The shared state   *)
(* is the class-level dict RouletteStartCommand.game_data; every command   *)
(* instance owns a private DialogueManager.                                *)
(***************************************************************************)
EXTENDS Integers, Sequences, FiniteSets, TLC

(* ------------------------------ bounds -------------------------------- *)
\* successful starts (= watchdog tasks created) in one behaviour
MaxSessions == 2
\* shoot commands that can be in flight at the same time
MaxShooters == 2
\* start commands that can be in flight at the same time
MaxStarters == 2
\* the clock stops at MaxTicks * TickStep seconds
MaxTicks == 5
\* accepted shots per session in the specifications that follow whole life cycles
MaxShots == 2
\* calls of get_random_empty_bullet_message made on one DialogueManager
MaxPicks == 6

(* -------------------------- program constants ------------------------- *)
\* game_constants.max_wait_time, default
max_wait_time == 120
\* game_constants.min_mute_time / max_mute_time, defaults
min_mute_time == 60
max_mute_time == 3600
\* chambers of the revolver
Chambers == 6
\* len(messages) of the default dialogue.empty_bullet_messages
PoolSize == 5

(* ------------------------- modelling granularity ---------------------- *)
\* seconds the clock advances in one Tick
TickStep == 30
\* random.random() is drawn as random_number / DrawScale, DrawScale = lcm(1..6)
DrawScale == 60

Groups == {"G1", "G2"}
Users == {"u1", "u2"}
StreamTypes == {"none", "private", "group"}
\* the values of random.random() on both sides of each 1/k, k = 1..6, as multiples of 1/DrawScale
Draws == {0, 9, 10, 11, 12, 14, 15, 19, 20, 29, 30, 59}
\* the draws offered where the depth of a session is not the point
FewDraws == {0, 59}
\* candidate values around the ends of the configured mute range
MuteSamples == {59, 60, 3600, 3601}
BanOutcomes == {"ok", "fail", "raise"}

ShootIds == 1..MaxShooters
StartIds == 1..MaxStarters
SessionIds == 1..MaxSessions
MsgIdx == 0..(PoolSize - 1)

VARIABLES
    now,            \* datetime.now(), in seconds
    game_data,      \* RouletteStartCommand.game_data: dict group_id -> game
    starter,        \* start commands: position of each RouletteStartCommand.execute
    shooter,        \* shoot commands: position and locals of each RouletteShootCommand.execute
    used_messages,  \* self.dialogue_manager.used_messages of each shoot command in flight
    watchdog,       \* _check_game_timeout tasks, one per successful start
    session,        \* history: per key of game_data, the session id, its draws, its message picks
    n_sessions,     \* history: number of successful starts so far
    timeouts,       \* history: "no one dared" notifications sent, per session in the registry
    eliminated,     \* history: the sessions in which a draw was a hit
    replaced,       \* history: the sessions whose entry a start command deleted
    hits_drawn,     \* history: how many draws were hits, per group and user who fired
    group_bans,     \* history: how many GROUP_BAN commands were sent, per group, qq_id and duration
    last_draw,      \* history: the latest random.random() of line 350 and what came of it
    picks           \* history: per DialogueManager and group, the indices it returned since created or cleared

vars == <<now, game_data, starter, shooter, used_messages, watchdog,
          session, n_sessions, timeouts, eliminated, replaced, last_draw, picks, hits_drawn, group_bans>>

(* ------------------------------ helpers ------------------------------- *)
\* del d[k]
DictDel(d, k) == [x \in (DOMAIN d) \ {k} |-> d[x]]
\* d[k] = v
DictSet(d, k, v) == [x \in (DOMAIN d) \cup {k} |-> IF x = k THEN v ELSE d[x]]

\* a tally of occurrences: how often k was counted in d
Count(d, k) == IF k \in DOMAIN d THEN d[k] ELSE 0

Counted(d, k) == DictSet(d, k, Count(d, k) + 1)

Min(a, b) == IF a <= b THEN a ELSE b

(* ------------------------- RouletteStartCommand ----------------------- *)
\* the dict written at lines 168-173
NewGame(current_time) ==
    [start_time |-> current_time, shots |-> <<>>, is_active |-> TRUE, total_shots |-> 0]

\* line 160 with >= for >
TimedOut_at_limit(game, current_time) == (current_time - game.start_time) >= max_wait_time

\* line 160
TimedOut(game, current_time) == (current_time - game.start_time) > max_wait_time

\* lines 148-165 with the checks left out
GameInProgress_unchecked(game_key, current_time) == FALSE

\* lines 148-165 without the timeout check of lines 157-162
GameInProgress_no_timeout(game_key, current_time) ==
    /\ game_key \in DOMAIN game_data
    /\ game_data[game_key].is_active

\* lines 148-165: the start is refused iff the key holds an active game that has not timed out
GameInProgress(game_key, current_time) ==
    /\ game_key \in DOMAIN game_data
    /\ game_data[game_key].is_active
    /\ ~TimedOut(game_data[game_key], current_time)

IdleStarter == [pc |-> "idle", group_id |-> "-", deleted |-> "-"]
IdleShooter == [pc |-> "idle", group_id |-> "-", user_id |-> "-", current_shot |-> 0,
                remaining_bullets |-> 0, is_hit |-> FALSE, mute_seconds |-> 0]
NoWatchdog == [pc |-> "none", group_id |-> "-", remaining_time |-> 0, wake_at |-> 0]

\* line 229 taken as always true
StillActive_always(game) == TRUE

\* lines 229 and 322: game.get("is_active", False)
StillActive(game) == game.is_active

\* line 205 never sleeping
log_interval_nothing(remaining_time) == 0

\* _check_game_timeout line 205
log_interval(remaining_time) ==
    Min(IF remaining_time <= 30 THEN 10 ELSE 30, remaining_time)

Init ==
    /\ now = 0
    /\ game_data = <<>>
    /\ starter = [c \in StartIds |-> IdleStarter]
    /\ shooter = [c \in ShootIds |-> IdleShooter]
    /\ used_messages = [c \in ShootIds |-> <<>>]
    /\ picks = [c \in ShootIds |-> <<>>]
    /\ watchdog = [w \in SessionIds |-> NoWatchdog]
    /\ session = <<>>
    /\ n_sessions = 0
    /\ timeouts = [s \in SessionIds |-> 0]
    /\ eliminated = {}
    /\ replaced = {}
    /\ last_draw = [current_shot |-> 0, random_number |-> -1, is_hit |-> FALSE]
    /\ hits_drawn = <<>>
    /\ group_bans = <<>>

\* the clock
Tick ==
    /\ now + TickStep <= MaxTicks * TickStep
    /\ now' = now + TickStep
    /\ UNCHANGED <<game_data, starter, shooter, used_messages, picks, watchdog,
                   session, n_sessions, timeouts, eliminated, replaced, last_draw, hits_drawn, group_bans>>

\* RouletteStartCommand.execute, lines 123-185, up to its first await.
\* deleted records which del ran first: line 154 ("finished"), line 162 ("timed_out").
\* Line 176 clears the DialogueManager of this command object (line 121), which no
\* shoot command reads: it leaves used_messages as it is.
StartExecute(c, stream, group_id) ==
    /\ starter[c].pc = "idle"
    /\ \A d \in StartIds : d < c => starter[d].pc # "idle"
    /\ IF stream = "none"
       THEN \* lines 131-134
            /\ starter' = [starter EXCEPT ![c] = [IdleStarter EXCEPT !.pc = "send_no_stream"]]
            /\ UNCHANGED <<game_data, watchdog, session, n_sessions, replaced>>
       ELSE IF stream # "group"
       THEN \* lines 137-139
            /\ starter' = [starter EXCEPT ![c] = [IdleStarter EXCEPT !.pc = "send_not_group"]]
            /\ UNCHANGED <<game_data, watchdog, session, n_sessions, replaced>>
       ELSE IF GameInProgress(group_id, now)
       THEN \* lines 163-165
            /\ starter' = [starter EXCEPT ![c] =
                              [pc |-> "send_in_progress", group_id |-> group_id, deleted |-> "-"]]
            /\ UNCHANGED <<game_data, watchdog, session, n_sessions, replaced>>
       ELSE \* lines 154/162 (del of a finished or timed-out game), 168-185
            /\ game_data' = DictSet(game_data, group_id, NewGame(now))
            /\ n_sessions' = n_sessions + 1
            /\ session' = DictSet(session, group_id, [sid |-> n_sessions + 1, hits |-> <<>>, msgs |-> <<>>])
            /\ replaced' = IF group_id \in DOMAIN game_data
                           THEN replaced \cup {session[group_id].sid}
                           ELSE replaced
            /\ watchdog' = [watchdog EXCEPT ![n_sessions + 1] =
                               [pc |-> "sleeping", group_id |-> group_id,
                                remaining_time |-> max_wait_time,
                                wake_at |-> now + log_interval(max_wait_time)]]
            /\ starter' = [starter EXCEPT ![c] =
                              [pc |-> "send_start", group_id |-> group_id,
                               deleted |-> IF group_id \notin DOMAIN game_data THEN "-"
                                           ELSE IF ~game_data[group_id].is_active THEN "finished"
                                           ELSE "timed_out"]]
    /\ UNCHANGED <<now, shooter, used_messages, picks, timeouts, eliminated, last_draw, hits_drawn, group_bans>>

\* the return that follows the last await of RouletteStartCommand.execute
StartReturn(c) ==
    /\ starter[c].pc # "idle"
    /\ starter' = [starter EXCEPT ![c] = IdleStarter]
    /\ UNCHANGED <<now, game_data, shooter, used_messages, picks, watchdog,
                   session, n_sessions, timeouts, eliminated, replaced, last_draw, hits_drawn, group_bans>>


(* ------------------------- _check_game_timeout ------------------------ *)
\* lines 203-238: one wake-up of the sleeping task.  The sleeps are timed from
\* the nominal wake time, so the last one ends no earlier than max_wait_time
\* after the start; the event loop may resume the task later than that.
WatchdogWake(w) ==
    LET wd == watchdog[w]
        g == wd.group_id
        remaining == wd.remaining_time - log_interval(wd.remaining_time)
    IN
    /\ wd.pc = "sleeping"
    /\ now >= wd.wake_at
    /\ IF remaining > 0
       THEN \* lines 203-224: log and sleep again
            /\ watchdog' = [watchdog EXCEPT ![w] =
                               [wd EXCEPT !.remaining_time = remaining,
                                          !.wake_at = wd.wake_at + log_interval(remaining)]]
            /\ UNCHANGED <<game_data, session, timeouts>>
       ELSE IF g \in DOMAIN game_data
       THEN IF StillActive(game_data[g])
            THEN \* line 231: await self.send_text(...)
                 /\ watchdog' = [watchdog EXCEPT ![w] =
                                    [wd EXCEPT !.remaining_time = remaining, !.pc = "send_timeout"]]
                 /\ timeouts' = [timeouts EXCEPT ![session[g].sid] = @ + 1]
                 /\ UNCHANGED <<game_data, session>>
            ELSE \* lines 233-238
                 /\ watchdog' = [watchdog EXCEPT ![w] =
                                    [wd EXCEPT !.remaining_time = remaining, !.pc = "done_cleanup"]]
                 /\ game_data' = DictDel(game_data, g)
                 /\ session' = DictDel(session, g)
                 /\ UNCHANGED timeouts
       ELSE \* line 226 false
            /\ watchdog' = [watchdog EXCEPT ![w] =
                               [wd EXCEPT !.remaining_time = remaining, !.pc = "done_nothing"]]
            /\ UNCHANGED <<game_data, session, timeouts>>
    /\ UNCHANGED <<now, starter, shooter, used_messages, picks, n_sessions, eliminated, replaced, last_draw, hits_drawn, group_bans>>

\* line 238 after the await of line 231; del of a missing key raises KeyError in the task
WatchdogAfterTimeout(w) ==
    LET wd == watchdog[w]
        g == wd.group_id
    IN
    /\ wd.pc = "send_timeout"
    /\ IF g \in DOMAIN game_data
       THEN /\ game_data' = DictDel(game_data, g)
            /\ session' = DictDel(session, g)
            /\ watchdog' = [watchdog EXCEPT ![w] = [wd EXCEPT !.pc = "done_timeout"]]
       ELSE /\ watchdog' = [watchdog EXCEPT ![w] = [wd EXCEPT !.pc = "key_error"]]
            /\ UNCHANGED <<game_data, session>>
    /\ UNCHANGED <<now, starter, shooter, used_messages, picks, n_sessions, timeouts,
                   eliminated, replaced, last_draw, hits_drawn, group_bans>>

(* ---------------------------- DialogueManager ------------------------- *)
\* self.used_messages[group_id] after lines 55-56
UsedIndices(dm, group_id) == IF group_id \in DOMAIN dm THEN dm[group_id] ELSE {}

\* lines 61-66 without the filter on used_indices
available_indices_unfiltered(dm, group_id) == MsgIdx

\* lines 61-66
available_indices(dm, group_id) ==
    IF MsgIdx \ UsedIndices(dm, group_id) = {}
    THEN MsgIdx
    ELSE MsgIdx \ UsedIndices(dm, group_id)

\* get_random_empty_bullet_message, lines 55-70: used_messages after selected_index is chosen
AfterPick(dm, group_id, selected_index) ==
    DictSet(dm, group_id,
            (IF MsgIdx \ UsedIndices(dm, group_id) = {} THEN {} ELSE UsedIndices(dm, group_id))
                \cup {selected_index})

\* the record of the indices returned for group_id, with selected_index (line 69) added
Picked(h, group_id, selected_index) ==
    DictSet(h, group_id,
            Append(IF group_id \in DOMAIN h THEN h[group_id] ELSE <<>>, selected_index))

\* clear_used_messages, lines 98-99
clear_used_messages(dm, group_id) ==
    IF group_id \in DOMAIN dm THEN DictDel(dm, group_id) ELSE dm

\* one call of get_random_empty_bullet_message (lines 36-75) on DialogueManager c
SelectorPick(c, group_id, selected_index) ==
    /\ selected_index \in available_indices(used_messages[c], group_id)
    /\ used_messages' = [used_messages EXCEPT ![c] = AfterPick(@, group_id, selected_index)]
    /\ picks' = [picks EXCEPT ![c] = Picked(@, group_id, selected_index)]
    /\ UNCHANGED <<now, game_data, starter, shooter, watchdog, session, n_sessions,
                   timeouts, eliminated, replaced, last_draw, hits_drawn, group_bans>>

\* one call of clear_used_messages (lines 92-99) on DialogueManager c
SelectorClear(c, group_id) ==
    /\ used_messages' = [used_messages EXCEPT ![c] = clear_used_messages(@, group_id)]
    /\ picks' = [picks EXCEPT ![c] = clear_used_messages(@, group_id)]
    /\ UNCHANGED <<now, game_data, starter, shooter, watchdog, session, n_sessions,
                   timeouts, eliminated, replaced, last_draw, hits_drawn, group_bans>>

(* ------------------------- RouletteShootCommand ----------------------- *)
\* line 346 without its "+ 1" for the current shot
remaining_bullets_forgets_current(current_shot) == Chambers - current_shot

\* line 346 counting the current shot twice
remaining_bullets_counts_twice(current_shot) == Chambers - current_shot + 2

\* line 346
remaining_bullets(current_shot) == Chambers - current_shot + 1

\* lines 347-351: random_number / DrawScale < 1 / remaining
is_hit(random_number, remaining) == random_number * remaining < DrawScale

\* lines 337-343 with the number of the previous shot
shot_record_previous(user_id, current_shot) ==
    [user_id |-> user_id, shot_number |-> current_shot - 1]

\* lines 337-342 (user_name and shot_time are only ever logged)
shot_record(user_id, current_shot) == [user_id |-> user_id, shot_number |-> current_shot]

\* line 317 with the check left out
NotStarted_unchecked(game_key) == FALSE

\* line 317
NotStarted(game_key) == game_key \notin DOMAIN game_data

\* line 322 with the check left out
GameOver_unchecked(game) == FALSE

\* line 322
GameOver(game) == ~game.is_active

\* line 391 with a range one wider at each end and the bounds themselves left out
randint_open(a, b) == {n \in MuteSamples : a - 1 <= n /\ n <= b + 1} \ {a, b}

\* line 391: random.randint(a, b), over the sampled values
randint(a, b) == {n \in MuteSamples : a <= n /\ n <= b}

\* RouletteShootCommand.execute, lines 293-373, up to its first await.  The command
\* object is constructed for the message it handles (self.message), so its
\* DialogueManager starts empty (lines 29, 291).
ShootExecute(c, stream, group_id, user_id, random_number, selected_index) ==
    LET refused(pc) == [IdleShooter EXCEPT !.pc = pc, !.group_id = group_id, !.user_id = user_id]
    IN
    /\ shooter[c].pc = "idle"
    /\ \A d \in ShootIds : d < c => shooter[d].pc # "idle"
    /\ IF stream = "none"
       THEN \* lines 300-303
            /\ shooter' = [shooter EXCEPT ![c] = [IdleShooter EXCEPT !.pc = "send_no_stream"]]
            /\ UNCHANGED <<game_data, session, used_messages, picks, eliminated, last_draw, hits_drawn, group_bans>>
       ELSE IF stream # "group"
       THEN \* lines 306-308
            /\ shooter' = [shooter EXCEPT ![c] = [IdleShooter EXCEPT !.pc = "send_not_group"]]
            /\ UNCHANGED <<game_data, session, used_messages, picks, eliminated, last_draw, hits_drawn, group_bans>>
       ELSE IF NotStarted(group_id)
       THEN \* lines 317-319
            /\ shooter' = [shooter EXCEPT ![c] = refused("send_not_started")]
            /\ UNCHANGED <<game_data, session, used_messages, picks, eliminated, last_draw, hits_drawn, group_bans>>
       ELSE IF group_id \notin DOMAIN game_data
       THEN \* self.game_data[game_key] of line 322 raises KeyError: lines 382-384
            /\ shooter' = [shooter EXCEPT ![c] = refused("send_error")]
            /\ UNCHANGED <<game_data, session, used_messages, picks, eliminated, last_draw, hits_drawn, group_bans>>
       ELSE IF GameOver(game_data[group_id])
       THEN \* lines 322-324
            /\ shooter' = [shooter EXCEPT ![c] = refused("send_game_over")]
            /\ UNCHANGED <<game_data, session, used_messages, picks, eliminated, last_draw, hits_drawn, group_bans>>
       ELSE LET current_shot == game_data[group_id].total_shots + 1 IN   \* lines 327-328
            IF current_shot > Chambers
            THEN \* lines 331-332
                 /\ game_data' = [game_data EXCEPT ![group_id].total_shots = current_shot]
                 /\ shooter' = [shooter EXCEPT ![c] =
                                   [refused("send_exhausted") EXCEPT !.current_shot = current_shot]]
                 /\ UNCHANGED <<session, used_messages, picks, eliminated, last_draw, hits_drawn, group_bans>>
            ELSE \* lines 337-373
                 LET remaining == remaining_bullets(current_shot)
                     hit == is_hit(random_number, remaining)
                     me == [IdleShooter EXCEPT !.group_id = group_id,
                                               !.user_id = user_id,
                                               !.current_shot = current_shot,
                                               !.remaining_bullets = remaining,
                                               !.is_hit = hit]
                     consulted == [used_indices |-> UsedIndices(<<>>, group_id),
                                   selected_index |-> selected_index]
                 IN
                 /\ game_data' = [game_data EXCEPT
                        ![group_id].total_shots = current_shot,
                        ![group_id].shots = Append(@, shot_record(user_id, current_shot))]
                 /\ session' = [session EXCEPT
                        ![group_id].hits = Append(@, hit),
                        ![group_id].msgs = IF hit THEN @ ELSE Append(@, consulted)]
                 /\ eliminated' = IF hit THEN eliminated \cup {session[group_id].sid}
                                   ELSE eliminated
                 /\ last_draw' = [current_shot |-> current_shot,
                                  random_number |-> random_number, is_hit |-> hit]
                 /\ hits_drawn' = IF hit
                                   THEN Counted(hits_drawn, [group_id |-> group_id,
                                                             user_id |-> user_id])
                                   ELSE hits_drawn
                 /\ UNCHANGED group_bans
                 /\ IF hit
                    THEN \* lines 357-358
                         /\ shooter' = [shooter EXCEPT ![c] = [me EXCEPT !.pc = "send_hit"]]
                         /\ UNCHANGED <<used_messages, picks>>
                    ELSE \* lines 372-373
                         /\ selected_index \in available_indices(<<>>, group_id)
                         /\ shooter' = [shooter EXCEPT ![c] = [me EXCEPT !.pc = "send_empty"]]
                         /\ used_messages' = [used_messages EXCEPT ![c] =
                                AfterPick(<<>>, group_id, selected_index)]
                         /\ picks' = [picks EXCEPT ![c] =
                                Picked(<<>>, group_id, selected_index)]
    /\ UNCHANGED <<now, starter, watchdog, n_sessions, timeouts, replaced>>

\* lines 333, 364, 378 written to the game of every key
Deactivate_every(group_id) ==
    [g \in DOMAIN game_data |-> [game_data[g] EXCEPT !.is_active = FALSE]]

\* self.game_data[game_key]["is_active"] = False (lines 333, 364, 378)
Deactivate(group_id) == [game_data EXCEPT ![group_id].is_active = FALSE]

\* the return that follows the await of a refusal (lines 303, 308, 319, 324) or of
\* the error report (line 385)
ShootReturn(c) ==
    /\ shooter[c].pc \in {"send_no_stream", "send_not_group", "send_not_started",
                          "send_game_over", "send_error"}
    /\ shooter' = [shooter EXCEPT ![c] = IdleShooter]
    /\ used_messages' = [used_messages EXCEPT ![c] = <<>>]
    /\ picks' = [picks EXCEPT ![c] = <<>>]
    /\ UNCHANGED <<now, game_data, starter, watchdog, session, n_sessions, timeouts,
                   eliminated, replaced, last_draw, hits_drawn, group_bans>>

\* lines 333-334 after the await of line 332; a missing key raises KeyError (line 382)
ShootAfterExhausted(c) ==
    LET g == shooter[c].group_id IN
    /\ shooter[c].pc = "send_exhausted"
    /\ IF g \in DOMAIN game_data
       THEN /\ game_data' = Deactivate(g)
            /\ shooter' = [shooter EXCEPT ![c] = IdleShooter]
            /\ used_messages' = [used_messages EXCEPT ![c] = <<>>]
            /\ picks' = [picks EXCEPT ![c] = <<>>]
       ELSE /\ shooter' = [shooter EXCEPT ![c].pc = "send_error"]
            /\ UNCHANGED <<game_data, used_messages, picks>>
    /\ UNCHANGED <<now, starter, watchdog, session, n_sessions, timeouts,
                   eliminated, replaced, last_draw, hits_drawn, group_bans>>

\* lines 397-404: send_command("GROUP_BAN", qq_id = str(user_id), duration = str(mute_seconds))
GROUP_BAN(group_id, user_id, mute_seconds) ==
    Counted(group_bans, [group_id |-> group_id, qq_id |-> user_id, duration |-> mute_seconds])

\* line 361 and _execute_mute lines 389-404, after the await of line 358
ShootAfterHitMessage(c, mute_seconds) ==
    /\ shooter[c].pc = "send_hit"
    /\ mute_seconds \in randint(min_mute_time, max_mute_time)
    /\ shooter' = [shooter EXCEPT ![c].pc = "send_ban", ![c].mute_seconds = mute_seconds]
    /\ group_bans' = GROUP_BAN(shooter[c].group_id, shooter[c].user_id, mute_seconds)
    /\ UNCHANGED <<now, game_data, starter, used_messages, picks, watchdog,
                   session, n_sessions, timeouts, eliminated, replaced, last_draw, hits_drawn>>

\* _execute_mute lines 406-415, after the await of line 397
ShootAfterBan(c, outcome) ==
    /\ shooter[c].pc = "send_ban"
    /\ shooter' = [shooter EXCEPT ![c].pc =
                       CASE outcome = "ok" -> "send_mute_ok"
                         [] outcome = "fail" -> "send_mute_failed"
                         [] OTHER -> "send_mute_error"]
    /\ UNCHANGED <<now, game_data, starter, used_messages, picks, watchdog,
                   session, n_sessions, timeouts, eliminated, replaced, last_draw, hits_drawn, group_bans>>

\* lines 364-369, after the await of line 409, 411 or 415
ShootAfterMute(c) ==
    LET g == shooter[c].group_id IN
    /\ shooter[c].pc \in {"send_mute_ok", "send_mute_failed", "send_mute_error"}
    /\ IF g \in DOMAIN game_data
       THEN /\ game_data' = Deactivate(g)
            /\ used_messages' = [used_messages EXCEPT ![c] = clear_used_messages(@, g)]
            /\ picks' = [picks EXCEPT ![c] = clear_used_messages(@, g)]
            /\ shooter' = [shooter EXCEPT ![c] = IdleShooter]
       ELSE /\ shooter' = [shooter EXCEPT ![c].pc = "send_error"]
            /\ UNCHANGED <<game_data, used_messages, picks>>
    /\ UNCHANGED <<now, starter, watchdog, session, n_sessions, timeouts,
                   eliminated, replaced, last_draw, hits_drawn, group_bans>>

\* lines 376-380, after the await of line 373 and then of line 377
ShootAfterEmpty(c) ==
    LET g == shooter[c].group_id IN
    /\ shooter[c].pc \in {"send_empty", "send_sixth"}
    /\ IF shooter[c].pc = "send_empty"
       THEN IF shooter[c].current_shot = Chambers
            THEN \* line 377
                 /\ shooter' = [shooter EXCEPT ![c].pc = "send_sixth"]
                 /\ UNCHANGED <<game_data, used_messages, picks>>
            ELSE \* line 380
                 /\ shooter' = [shooter EXCEPT ![c] = IdleShooter]
                 /\ used_messages' = [used_messages EXCEPT ![c] = <<>>]
                 /\ picks' = [picks EXCEPT ![c] = <<>>]
                 /\ UNCHANGED game_data
       ELSE IF g \in DOMAIN game_data
            THEN \* lines 378-380
                 /\ game_data' = Deactivate(g)
                 /\ shooter' = [shooter EXCEPT ![c] = IdleShooter]
                 /\ used_messages' = [used_messages EXCEPT ![c] = <<>>]
                 /\ picks' = [picks EXCEPT ![c] = <<>>]
            ELSE /\ shooter' = [shooter EXCEPT ![c].pc = "send_error"]
                 /\ UNCHANGED <<game_data, used_messages, picks>>
    /\ UNCHANGED <<now, starter, watchdog, session, n_sessions, timeouts,
                   eliminated, replaced, last_draw, hits_drawn, group_bans>>

(* ---------------------------- specifications ------------------------- *)
\* An environment E names the inputs the chat offers: which command objects run
\* (starters, shooters), and the values of stream type, group, user, random draw,
\* message pick, mute duration and GROUP_BAN outcome they meet; sessions and shots
\* cap the number of successful starts and the shots counted per session.
ShotsWithin(cap) == \A g \in DOMAIN game_data : game_data[g].total_shots <= cap

StartSteps(E) ==
    \/ \E c \in E.starters, stream \in E.streams, g \in E.groups :
          StartExecute(c, stream, g) /\ n_sessions' <= E.sessions
    \/ \E c \in E.starters : StartReturn(c)

WatchdogSteps ==
    \/ \E w \in SessionIds : WatchdogWake(w)
    \/ \E w \in SessionIds : WatchdogAfterTimeout(w)

ShootSteps(E) ==
    \/ \E c \in E.shooters, stream \in E.streams, g \in E.groups, u \in E.users,
          r \in E.draws, i \in E.picks :
          ShootExecute(c, stream, g, u, r, i) /\ ShotsWithin(E.shots)'
    \/ \E c \in E.shooters : ShootReturn(c)
    \/ \E c \in E.shooters, d \in E.mutes : ShootAfterHitMessage(c, d)
    \/ \E c \in E.shooters, outcome \in E.bans : ShootAfterBan(c, outcome)
    \/ \E c \in E.shooters : ShootAfterMute(c)
    \/ \E c \in E.shooters : ShootAfterEmpty(c)

\* the command that counted a seventh shot; out of reach where E.shots < Chambers
ExhaustedSteps(E) == \E c \in E.shooters : ShootAfterExhausted(c)

\* whole life cycles of a few short sessions of one group
LifeEnv ==
    [starters |-> {1}, shooters |-> {1}, streams |-> {"group"},
     groups |-> {"G1"}, users |-> {"u1"}, draws |-> FewDraws, picks |-> {0},
     mutes |-> {min_mute_time}, bans |-> {"ok"},
     sessions |-> MaxSessions, shots |-> MaxShots]

Next ==
    \/ Tick
    \/ StartSteps(LifeEnv)
    \/ WatchdogSteps
    \/ ShootSteps(LifeEnv)

Spec == Init /\ [][Next]_vars

\* sessions played to the last chamber by concurrent shoot commands, every draw offered
GameEnv ==
    [starters |-> {1}, shooters |-> ShootIds, streams |-> {"group"},
     groups |-> {"G1"}, users |-> {"u1"}, draws |-> Draws, picks |-> {0},
     mutes |-> {min_mute_time}, bans |-> {"ok"},
     sessions |-> 1, shots |-> Chambers + MaxShooters]

NextGame ==
    \/ StartSteps(GameEnv)
    \/ ShootSteps(GameEnv)
    \/ ExhaustedSteps(GameEnv)

SpecGame == Init /\ [][NextGame]_vars

\* concurrent start commands of two groups from every kind of chat, and their watchdogs
StartEnv ==
    [starters |-> StartIds, shooters |-> {}, streams |-> StreamTypes,
     groups |-> {"G1"}, users |-> {}, draws |-> {}, picks |-> {},
     mutes |-> {}, bans |-> {},
     sessions |-> MaxSessions, shots |-> 0]

NextStart ==
    \/ Tick
    \/ StartSteps(StartEnv)
    \/ WatchdogSteps

SpecStart == Init /\ [][NextStart]_vars

\* one session of one shot over the clock and its watchdog, with every mute duration
\* and every outcome of GROUP_BAN
MuteEnv ==
    [starters |-> {1}, shooters |-> {1}, streams |-> {"group"},
     groups |-> {"G1"}, users |-> Users, draws |-> FewDraws, picks |-> {0},
     mutes |-> MuteSamples, bans |-> BanOutcomes,
     sessions |-> 1, shots |-> 1]

NextMute ==
    \/ Tick
    \/ StartSteps(MuteEnv)
    \/ WatchdogSteps
    \/ ShootSteps(MuteEnv)

SpecMute == Init /\ [][NextMute]_vars

\* sessions of two groups side by side: shoot commands, the clock, the watchdogs
IsolationEnv ==
    [starters |-> {1}, shooters |-> {1}, streams |-> {"group"},
     groups |-> Groups, users |-> {"u1"}, draws |-> FewDraws, picks |-> {0},
     mutes |-> {min_mute_time}, bans |-> {"ok"},
     sessions |-> 2, shots |-> 1]

NextIsolation ==
    \/ Tick
    \/ StartSteps(IsolationEnv)
    \/ WatchdogSteps
    \/ ShootSteps(IsolationEnv)

SpecIsolation == Init /\ [][NextIsolation]_vars

\* sessions started early enough for their watchdogs to end before the clock stops
LiveEnv ==
    [starters |-> {1}, shooters |-> {1}, streams |-> {"group"},
     groups |-> {"G1"}, users |-> {"u1"}, draws |-> FewDraws, picks |-> {0},
     mutes |-> {min_mute_time}, bans |-> {"ok"},
     sessions |-> 2, shots |-> MaxShots]

\* a start is accepted only while max_wait_time still fits before the clock stops
StartsInTime == (n_sessions' # n_sessions) => (now + max_wait_time <= MaxTicks * TickStep)

NextLive ==
    \/ Tick
    \/ StartSteps(LiveEnv) /\ StartsInTime
    \/ WatchdogSteps
    \/ ShootSteps(LiveEnv)

\* time passes, asyncio.sleep returns when its delay is over (line 206), and the
\* send_text awaited by the watchdog returns (line 231); commands may stay suspended
Fairness ==
    /\ WF_vars(Tick)
    /\ \A w \in SessionIds : WF_vars(WatchdogWake(w))
    /\ \A w \in SessionIds : WF_vars(WatchdogAfterTimeout(w))

SpecLive == Init /\ [][NextLive]_vars /\ Fairness

\* the number of indices recorded in h over all groups
RECURSIVE PickCount(_, _)
PickCount(h, gs) ==
    IF gs = {} THEN 0
    ELSE LET g == CHOOSE x \in gs : TRUE
         IN (IF g \in DOMAIN h THEN Len(h[g]) ELSE 0) + PickCount(h, gs \ {g})

\* one DialogueManager asked for empty-bullet messages and cleared, for two groups
NextSelector ==
    \/ \E g \in Groups, i \in MsgIdx :
          SelectorPick(1, g, i) /\ PickCount(picks'[1], Groups) <= MaxPicks
    \/ \E g \in Groups : SelectorClear(1, g) /\ picks'[1] # picks[1]

SpecSelector == Init /\ [][NextSelector]_vars

(* ------------------------------- claims ------------------------------- *)
\* the shoot commands that have made their draw and not yet returned
Drawn(c) == shooter[c].remaining_bullets # 0

AllMisses(hits, n) == \A i \in 1..n : ~hits[i]

\* C1: the n-th shot of a session, n in 1..6, is drawn against 1/(6-n+1): the command
\* that fired it holds remaining_bullets = 7-n, it hit exactly when its draw was below
\* 1/(7-n), and that is the outcome of the n-th shot record of the session.
C1_ShotProbability ==
    /\ \A c \in ShootIds :
          Drawn(c) =>
              LET n == shooter[c].current_shot
                  g == shooter[c].group_id
              IN
              /\ n \in 1..Chambers
              /\ shooter[c].remaining_bullets = 7 - n
              /\ g \in DOMAIN game_data
              /\ Len(game_data[g].shots) >= n
              /\ game_data[g].shots[n].shot_number = n
              /\ session[g].hits[n] = shooter[c].is_hit
    /\ (last_draw.random_number >= 0) =>
          /\ last_draw.current_shot \in 1..Chambers
          /\ last_draw.is_hit <=>
                (last_draw.random_number * (7 - last_draw.current_shot) < DrawScale)

\* C1 witness: a third shot after two misses, drawn just below and just at 1/4
C1_Witness ==
    \E c, d \in ShootIds :
        /\ Drawn(c) /\ shooter[c].current_shot = 3 /\ ~shooter[c].is_hit
        /\ AllMisses(session[shooter[c].group_id].hits, 3)
        /\ Drawn(d) /\ shooter[d].current_shot = 4 /\ shooter[d].is_hit
        /\ last_draw = [current_shot |-> 4, random_number |-> 19, is_hit |-> TRUE]

\* C2: a sixth shot always eliminates: five misses leave the session active with
\* total_shots = 5, every sixth draw is a hit, the "sixth shot missed" branch (line 377)
\* is never entered, and once the command that fired the sixth shot has returned the
\* session is no longer active.
C2_SixthShotEliminates ==
    /\ \A c \in ShootIds :
          /\ (Drawn(c) /\ shooter[c].current_shot = Chambers) => shooter[c].is_hit
          /\ shooter[c].pc # "send_sixth"
    /\ \A g \in DOMAIN game_data :
          LET hits == session[g].hits IN
          /\ (Len(hits) = 5 /\ AllMisses(hits, 5)) =>
                 (game_data[g].is_active /\ game_data[g].total_shots = 5)
          /\ Len(hits) = Chambers =>
                 /\ hits[Chambers]
                 /\ (\A c \in ShootIds : ~(Drawn(c) /\ shooter[c].current_shot = Chambers))
                        => ~game_data[g].is_active

\* C2 witness: five misses, then the highest draw on the sixth shot, which hits
C2_Witness ==
    \E c \in ShootIds :
        /\ Drawn(c) /\ shooter[c].current_shot = Chambers /\ shooter[c].is_hit
        /\ last_draw = [current_shot |-> Chambers, random_number |-> 59, is_hit |-> TRUE]
        /\ AllMisses(session[shooter[c].group_id].hits, 5)

\* C4: in every reachable state each session has 0 <= total_shots <= 6 and
\* total_shots = len(shots).
C4_CounterMatchesRecords ==
    \A g \in DOMAIN game_data :
        /\ 0 <= game_data[g].total_shots
        /\ game_data[g].total_shots <= Chambers
        /\ game_data[g].total_shots = Len(game_data[g].shots)

\* a step in which start command c, sent from group g, runs up to its first await
StartsFor(c, g) ==
    /\ starter[c].pc = "idle"
    /\ starter'[c].pc \in {"send_start", "send_in_progress"}
    /\ starter'[c].group_id = g

\* the registry holds for g an active session created no more than max_wait_time ago
ActiveUnexpired(g) ==
    /\ g \in DOMAIN game_data
    /\ game_data[g].is_active
    /\ now - game_data[g].start_time <= max_wait_time

\* a step in which shoot command c, sent from group g, runs up to its first await
BeginsShoot(c, g) ==
    /\ shooter[c].pc = "idle"
    /\ shooter'[c].pc # "idle"
    /\ shooter'[c].group_id = g

\* C3: a start command is decided in one step against the registry: it is rejected
\* with "already in progress" when the group has an active unexpired session, it
\* succeeds otherwise, and after either the group has an active unexpired session; so
\* of concurrent start commands for a group exactly one succeeds and the others are
\* rejected for as long as that session stays active, unexpired and in the registry.
C3_ExclusiveCreate ==
    [][\A c \in StartIds, g \in Groups :
          StartsFor(c, g) =>
              /\ ActiveUnexpired(g) =>
                     /\ starter'[c].pc = "send_in_progress"
                     /\ n_sessions' = n_sessions
                     /\ game_data' = game_data
              /\ ~ActiveUnexpired(g) =>
                     /\ starter'[c].pc = "send_start"
                     /\ n_sessions' = n_sessions + 1
              /\ ActiveUnexpired(g)'
      ]_vars

\* C3 witness: two start commands for one group in flight together, the first accepted
\* and the second rejected, the session they met still active and unexpired
C3_Witness ==
    \E c, d \in StartIds, g \in Groups :
        /\ starter[c] = [pc |-> "send_start", group_id |-> g, deleted |-> "-"]
        /\ starter[d] = [pc |-> "send_in_progress", group_id |-> g, deleted |-> "-"]
        /\ ActiveUnexpired(g)
        /\ n_sessions = 1

\* session s is in the registry under no group
Gone(s) == \A g \in DOMAIN session : session[g].sid # s

\* the watchdog task of session s has run to its end
WatchdogOver(s) == watchdog[s].pc \in {"done_timeout", "done_cleanup", "done_nothing", "key_error"}

\* C5: no session gets more than one "no one dared" notification, and a session in
\* which nobody was eliminated, and which no start command replaced, has had exactly
\* one and is out of the registry once its watchdog has run to its end.
C5_TimedOutExactlyOnce ==
    \A s \in 1..n_sessions :
        /\ timeouts[s] <= 1
        /\ (WatchdogOver(s) /\ s \notin eliminated /\ s \notin replaced) =>
               (timeouts[s] = 1 /\ Gone(s))

\* C6: a start command for a group with an active session no older than max_wait_time
\* is rejected, and neither that step nor the return after its message changes the
\* registry (start_time, shots, total_shots, is_active) or schedules a watchdog.
C6_RejectedStartChangesNothing ==
    [][\A c \in StartIds :
          /\ \A g \in Groups :
                (StartsFor(c, g) /\ ActiveUnexpired(g)) =>
                    /\ starter'[c].pc = "send_in_progress"
                    /\ game_data' = game_data
                    /\ watchdog' = watchdog
                    /\ session' = session
                    /\ n_sessions' = n_sessions
          /\ (starter[c].pc = "send_in_progress" /\ starter'[c] # starter[c]) =>
                /\ starter'[c] = IdleStarter
                /\ game_data' = game_data
                /\ watchdog' = watchdog
                /\ session' = session
                /\ n_sessions' = n_sessions
      ]_vars

\* C6 witness: a start rejected exactly max_wait_time after the session began, one
\* shot already recorded, the only watchdog that of the session
C6_Witness ==
    \E c \in StartIds, g \in DOMAIN game_data :
        /\ starter[c].pc = "send_in_progress" /\ starter[c].group_id = g
        /\ now - game_data[g].start_time = max_wait_time
        /\ game_data[g].is_active
        /\ Len(game_data[g].shots) = 1 /\ game_data[g].total_shots = 1
        /\ n_sessions = 1 /\ watchdog[2] = NoWatchdog

\* C7: a start command for a group with no entry, an inactive entry or an active entry
\* older than max_wait_time succeeds, and the registry then holds for the group exactly
\* a fresh session: start_time = now, no shots, total_shots = 0, is_active.
C7_StartReplacesStale ==
    [][\A c \in StartIds, g \in Groups :
          (StartsFor(c, g) /\ ~ActiveUnexpired(g)) =>
              /\ starter'[c].pc = "send_start"
              /\ g \in DOMAIN game_data'
              /\ game_data'[g] = [start_time |-> now, shots |-> <<>>,
                                  is_active |-> TRUE, total_shots |-> 0]
              /\ session'[g] = [sid |-> n_sessions + 1, hits |-> <<>>, msgs |-> <<>>]
              /\ \A h \in DOMAIN game_data : h # g => (h \in DOMAIN game_data' /\ game_data'[h] = game_data[h])
      ]_vars

\* C7 witness: a start that met an active session with shots, older than max_wait_time,
\* whose watchdog had not fired, and replaced it
C7_Witness ==
    \E c \in StartIds, g \in DOMAIN game_data :
        /\ starter[c] = [pc |-> "send_start", group_id |-> g, deleted |-> "timed_out"]
        /\ watchdog[1].pc = "sleeping" /\ watchdog[1].group_id = g
        /\ now > max_wait_time
        /\ game_data[g] = NewGame(now)
        /\ session[g].sid = 2
        /\ last_draw.random_number >= 0

\* C8: while the session of a group is inactive, a shoot command for the group is
\* rejected with "game over" without a draw, and no step changes the session
\* (total_shots, shots, is_active) for as long as that session is the group's entry.
C8_TerminalRejectsShots ==
    [][\A g \in DOMAIN game_data :
          ~game_data[g].is_active =>
              /\ \A c \in ShootIds :
                    BeginsShoot(c, g) =>
                        /\ shooter'[c].pc = "send_game_over"
                        /\ ~Drawn(c)'
                        /\ last_draw' = last_draw
                        /\ game_data' = game_data
              /\ (g \in DOMAIN session' /\ session'[g].sid = session[g].sid) =>
                    /\ game_data'[g] = game_data[g]
                    /\ session'[g] = session[g]
      ]_vars

\* C8 witness: a shoot command rejected by a session that a hit has ended
C8_Witness ==
    \E c \in ShootIds, g \in DOMAIN game_data :
        /\ shooter[c].pc = "send_game_over" /\ shooter[c].group_id = g
        /\ ~game_data[g].is_active
        /\ game_data[g].total_shots = 2 /\ Len(game_data[g].shots) = 2
        /\ session[g].hits = <<FALSE, TRUE>>

\* C9: a shoot command for a group without entry is answered "not started": the
\* registry is unchanged by it and by its return (no session appears), no draw is made
\* and the command returns without reaching the mute request.
C9_ShootWithoutSession ==
    [][\A c \in ShootIds :
          /\ \A g \in Groups :
                (BeginsShoot(c, g) /\ g \notin DOMAIN game_data) =>
                    /\ shooter'[c].pc = "send_not_started"
                    /\ ~Drawn(c)'
                    /\ game_data' = game_data
                    /\ session' = session
                    /\ last_draw' = last_draw
          /\ (shooter[c].pc = "send_not_started" /\ shooter'[c] # shooter[c]) =>
                /\ shooter'[c] = IdleShooter
                /\ game_data' = game_data
                /\ session' = session
      ]_vars

\* C9 witness: a shoot command answered "not started" before any start
C9_Witness ==
    \E c \in ShootIds :
        /\ shooter[c].pc = "send_not_started" /\ shooter[c].group_id = "G1"
        /\ n_sessions = 0
        /\ game_data = <<>>

\* the step in which watchdog w leaves its last sleep
WatchdogFires(w) == watchdog[w].pc = "sleeping" /\ watchdog'[w].pc # "sleeping"

\* C10: a watchdog that fires on an inactive entry sends no timeout notification and
\* removes the entry; one that finds no entry for its group sends nothing, changes
\* nothing and ends without error.
C10_WatchdogOnResolved ==
    [][\A w \in SessionIds :
          WatchdogFires(w) =>
              LET g == watchdog[w].group_id IN
              /\ (g \in DOMAIN game_data /\ ~game_data[g].is_active) =>
                     /\ watchdog'[w].pc = "done_cleanup"
                     /\ timeouts' = timeouts
                     /\ g \notin DOMAIN game_data'
              /\ (g \notin DOMAIN game_data) =>
                     /\ watchdog'[w].pc = "done_nothing"
                     /\ timeouts' = timeouts
                     /\ game_data' = game_data
      ]_vars

\* C10 witness: the watchdog of the second session has removed its session's entry,
\* which a hit had ended, and the watchdog of the first then found no entry; no
\* notification was sent
C10_Witness ==
    /\ watchdog[2].pc = "done_cleanup"
    /\ watchdog[1].pc = "done_nothing"
    /\ watchdog[1].group_id = watchdog[2].group_id
    /\ timeouts = [s \in SessionIds |-> 0]
    /\ eliminated = {1, 2}
    /\ game_data = <<>>

\* the positions of the exhaustion cycle in which the n-th pick falls
CycleOf(n) == (n - 1) \div PoolSize

\* C11: on one DialogueManager, for each group, the picks of one exhaustion cycle of
\* PoolSize calls are pairwise distinct, and after a pick the used-set is the set of
\* the picks of the current cycle: non-empty and within the pool indices.
C11_DistinctWithinCycle ==
    /\ DOMAIN used_messages[1] = DOMAIN picks[1]
    /\ \A g \in DOMAIN picks[1] :
          LET p == picks[1][g] IN
          /\ \A i, j \in 1..Len(p) :
                (i < j /\ CycleOf(i) = CycleOf(j)) => p[i] # p[j]
          /\ used_messages[1][g] = {p[i] : i \in {n \in 1..Len(p) : CycleOf(n) = CycleOf(Len(p))}}
          /\ used_messages[1][g] # {}
          /\ used_messages[1][g] \subseteq MsgIdx

\* C11 witness: a whole cycle of PoolSize picks for a group, then a pick that repeats
\* the first index of that cycle
C11_Witness ==
    \E g \in DOMAIN picks[1] :
        /\ Len(picks[1][g]) = PoolSize + 1
        /\ picks[1][g][PoolSize + 1] = picks[1][g][1]
        /\ used_messages[1][g] = {picks[1][g][1]}

\* C12: the record at position i of shots has shot_number i, so the records carry
\* distinct indices in firing order, and no two shoot commands in flight on one
\* session have counted the same shot.
C12_DistinctShotIndices ==
    /\ \A g \in DOMAIN game_data :
          \A i \in 1..Len(game_data[g].shots) : game_data[g].shots[i].shot_number = i
    /\ \A c, d \in ShootIds :
          (c # d /\ Drawn(c) /\ Drawn(d) /\ shooter[c].group_id = shooter[d].group_id) =>
              shooter[c].current_shot # shooter[d].current_shot

\* C12 witness: two shoot commands of one group in flight together after their draws,
\* holding the second and the third shot, three records stored
C12_Witness ==
    \E c, d \in ShootIds, g \in DOMAIN game_data :
        /\ Drawn(c) /\ shooter[c].group_id = g /\ shooter[c].current_shot = 2
        /\ Drawn(d) /\ shooter[d].group_id = g /\ shooter[d].current_shot = 3
        /\ Len(game_data[g].shots) = 3
        /\ game_data[g].shots[2].shot_number = 2
        /\ game_data[g].shots[3].shot_number = 3

\* a step in which shoot command c resumes after the message that reports a mute
\* that failed (send_command returned False, or raised)
ResumesAfterFailedMute(c) ==
    /\ shooter[c].pc \in {"send_mute_failed", "send_mute_error"}
    /\ shooter'[c] # shooter[c]

\* C13: when the draw was a hit and the mute failed, the shoot command ends with the
\* session inactive and the record and the count of the eliminating shot kept.
C13_MuteFailureNoRollback ==
    [][\A c \in ShootIds :
          ResumesAfterFailedMute(c) =>
              LET g == shooter[c].group_id
                  n == shooter[c].current_shot
              IN
              /\ shooter'[c] = IdleShooter
              /\ g \in DOMAIN game_data'
              /\ ~game_data'[g].is_active
              /\ game_data'[g].total_shots >= n
              /\ Len(game_data'[g].shots) >= n
              /\ game_data'[g].shots[n] = shot_record(shooter[c].user_id, n)
      ]_vars

\* the step is one of a start command, a shoot command or a watchdog of group g
ActsFor(g) ==
    \/ \E c \in StartIds :
          starter'[c] # starter[c] /\ (starter[c].group_id = g \/ starter'[c].group_id = g)
    \/ \E c \in ShootIds :
          shooter'[c] # shooter[c] /\ (shooter[c].group_id = g \/ shooter'[c].group_id = g)
    \/ \E w \in SessionIds :
          watchdog'[w] # watchdog[w] /\ watchdog[w].group_id = g

\* the step leaves the entry of g as it is: its presence and its four fields
SameEntry(g) ==
    /\ (g \in DOMAIN game_data') <=> (g \in DOMAIN game_data)
    /\ (g \in DOMAIN game_data /\ g \in DOMAIN game_data') => game_data'[g] = game_data[g]

\* the step leaves the used-set of g as it is in every DialogueManager
SameUsed(g) ==
    \A c \in ShootIds : UsedIndices(used_messages'[c], g) = UsedIndices(used_messages[c], g)

\* C14: a step of a start command, a shoot command or a watchdog of group A leaves
\* the entry of every other group B (presence, start_time, shots, total_shots,
\* is_active) and the message used-set of B unchanged.
C14_GroupsIsolated ==
    [][\A A, B \in Groups :
          (A # B /\ ActsFor(A)) => (SameEntry(B) /\ SameUsed(B))
      ]_vars

\* C14 witness: both groups have a session; a hit has ended that of G1 while that of
\* G2, with one miss recorded, is still active
C14_Witness ==
    /\ DOMAIN game_data = {"G1", "G2"}
    /\ ~game_data["G1"].is_active /\ session["G1"].hits = <<TRUE>>
    /\ game_data["G2"].is_active /\ session["G2"].hits = <<FALSE>>
    /\ game_data["G2"].total_shots = 1

\* session s is the entry of some group
InRegistry(s) == \E g \in DOMAIN session : session[g].sid = s

\* C15: every session that enters the registry is eventually out of it, whatever the
\* shoot commands do; every watchdog that sleeps eventually ends; and a watchdog whose
\* session is still the entry has slept, when it fires, max_wait_time in all, counted
\* from the start of the session.
C15_EventuallyRemoved ==
    /\ \A s \in SessionIds : InRegistry(s) ~> ~InRegistry(s)
    /\ \A s \in SessionIds : (watchdog[s].pc = "sleeping") ~> WatchdogOver(s)
    /\ [](\A s \in SessionIds :
             LET wd == watchdog[s]
                 g == wd.group_id
             IN
             (wd.pc \in {"sleeping", "send_timeout"} /\ g \in DOMAIN session /\ session[g].sid = s) =>
                 wd.wake_at = game_data[g].start_time + (max_wait_time - wd.remaining_time)
                                + (IF wd.pc = "sleeping" THEN log_interval(wd.remaining_time) ELSE 0))

\* C15 witness: a session in which a shot was fired and missed has been removed by its
\* watchdog, which has ended
C15_Witness ==
    /\ n_sessions = 1
    /\ watchdog[1].pc = "done_timeout"
    /\ game_data = <<>>
    /\ last_draw = [current_shot |-> 1, random_number |-> 59, is_hit |-> FALSE]
    /\ timeouts[1] = 1

\* C16: in a session only the last shot drawn can be a hit: after the draw that
\* eliminated a player no other shoot command of the group is accepted and drawn, and
\* at most one shoot command of the group is on its way to the mute.
C16_AtMostOneElimination ==
    /\ \A g \in DOMAIN session :
          \A i \in 1..(Len(session[g].hits) - 1) : ~session[g].hits[i]
    /\ \A c, d \in ShootIds :
          (c # d /\ Drawn(c) /\ Drawn(d) /\ shooter[c].group_id = shooter[d].group_id) =>
              ~(shooter[c].is_hit /\ shooter[d].is_hit)

\* a shoot command between its draw of a hit and its write of is_active (line 364)
Eliminating(c) == shooter[c].pc \in {"send_hit", "send_ban", "send_mute_ok",
                                     "send_mute_failed", "send_mute_error"}

\* C17: no session has both an elimination and a timeout notification, and no step
\* removes the entry of a group from the registry while a shoot command of that group is
\* between the draw of a hit and its write of is_active.
C17_WatchdogSerialized ==
    /\ [](\A s \in 1..n_sessions : ~(s \in eliminated /\ timeouts[s] > 0))
    /\ [][\A g \in DOMAIN game_data :
            (g \notin DOMAIN game_data') =>
                ~(\E c \in ShootIds : Eliminating(c) /\ shooter[c].group_id = g)]_vars

\* C18: a step that sends the timeout notification for the session in the registry of a
\* group, or removes that session's entry, is taken no earlier than max_wait_time after
\* the start_time of that session.
C18_WatchdogOwnSession ==
    [][\A g \in DOMAIN game_data :
          \/ g \notin DOMAIN game_data'
          \/ timeouts'[session[g].sid] > timeouts[session[g].sid]
          => now - game_data[g].start_time >= max_wait_time]_vars

\* C19: in every session the first shot that missed consulted an empty used set, and
\* the shots that missed did not repeat a message among the first PoolSize of them.
C19_FreshUsedSetPerSession ==
    \A g \in DOMAIN session :
        LET msgs == session[g].msgs IN
        /\ (Len(msgs) >= 1 => msgs[1].used_indices = {})
        /\ \A i, j \in 1..Len(msgs) :
              (i < j /\ j <= PoolSize) => msgs[i].selected_index # msgs[j].selected_index

\* C20: a shoot command that drew a hit never ends in the error report of lines
\* 382-385, and a session in the registry is inactive only if one of its own shots was
\* a hit or its counter passed the last chamber.
C20_TerminalWriteOwnSession ==
    /\ \A c \in ShootIds : shooter[c].pc = "send_error" => ~shooter[c].is_hit
    /\ \A g \in DOMAIN game_data :
          ~game_data[g].is_active =>
              \/ session[g].sid \in eliminated
              \/ game_data[g].total_shots > Chambers

\* the GROUP_BAN commands sent so far for user_id in group_id, over all durations
RECURSIVE BansFor(_, _, _)
BansFor(bans, group_id, user_id) ==
    IF bans = {} THEN 0
    ELSE LET b == CHOOSE x \in bans : TRUE IN
         (IF b.group_id = group_id /\ b.qq_id = user_id THEN group_bans[b] ELSE 0)
             + BansFor(bans \ {b}, group_id, user_id)

\* the shoot commands that drew a hit for user_id in group_id and have not reached line 397
BeforeBan(group_id, user_id) ==
    {c \in ShootIds : /\ shooter[c].pc = "send_hit"
                      /\ shooter[c].group_id = group_id
                      /\ shooter[c].user_id = user_id}

\* C21: every GROUP_BAN sent has a duration from min_mute_time to max_mute_time, both
\* included, and for every group and user the commands sent for that user are as many
\* as the hits that user drew, less the hits whose command has not reached the mute yet.
C21_MuteWithinBounds ==
    /\ \A b \in DOMAIN group_bans :
          min_mute_time <= b.duration /\ b.duration <= max_mute_time
    /\ \A g \in Groups, u \in Users :
          BansFor(DOMAIN group_bans, g, u) + Cardinality(BeforeBan(g, u))
              = Count(hits_drawn, [group_id |-> g, user_id |-> u])

\* user u2 drew a hit and was muted for the longest duration; the command has passed
\* the mute and is reporting a failed GROUP_BAN
C21_Witness ==
    /\ Count(hits_drawn, [group_id |-> "G1", user_id |-> "u2"]) = 1
    /\ Count(group_bans, [group_id |-> "G1", qq_id |-> "u2", duration |-> max_mute_time]) = 1
    /\ \E c \in ShootIds : shooter[c].pc = "send_mute_failed" /\ shooter[c].user_id = "u2"
====
